---------------------------- MODULE Spec2Model ----------------------------
(***************************************************************************)
(* Model of dt-core's ground projection node                               *)
(* (packages/ground_projection/src/ground_projection_node.py) and of its   *)
(* anti-instagram node                                                     *)
(* (packages/anti_instagram/src/anti_instagram_node.py).                   *)
(*                                                                         *)
(* The node is a rospy process: __init__ loads the extrinsic homography,   *)
(* then rospy delivers camera-info messages and segment batches to         *)
(* cb_camera_info and lineseglist_cb.  rospy runs the callbacks of         *)
(* different connections on different threads, so the callbacks are        *)
(* modelled statement by statement: one step per access to a field of      *)
(* self that another callback may write.  An exception that leaves a       *)
(* callback is caught by rospy, which logs "bad callback" and goes on      *)
(* with the next message.                                                  *)
(*                                                                         *)
(* The state of one node is also packed in a record (Node); every step of  *)
(* the code is an operator from node records to node records, so that a    *)
(* second run of the same code (the variable twin) can be fed the same     *)
(* inputs under a different debug consumer.                                *)
(*                                                                         *)
(* Lengths are integers in units of 1/800 m (half a pixel of the debug     *)
(* image), so 0.5 m is 400 and 1 pixel is 2.                               *)
(*                                                                         *)
(* The two nodes are separate processes.  Spec runs the ground projection  *)
(* node from its construction, SpecTwin runs it beside a second run of     *)
(* itself, SpecRender runs it from its ready state on batches given by     *)
(* the ground segments they project to, and SpecAI runs the                *)
(* anti-instagram node: its subscriber threads and its timer thread,       *)
(* statement by statement around the lock.                                 *)
(***************************************************************************)
EXTENDS Integers, Sequences, FiniteSets

\* ------------------------------------------------------------------ bounds
NumCamThreads == 2      \* threads that may run cb_camera_info concurrently
NumIntrinsics == 2      \* distinct camera-info contents
MaxCamInfos   == 2      \* camera-info messages delivered in a run
MaxSegments   == 2      \* segments in one input batch
MaxBatches    == 2      \* segment batches delivered in a run
MaxConnections == 1     \* consumers of the debug image topic
NumStoreThreads == 2    \* threads that may run store_image_msg concurrently
MaxImages     == 3      \* images delivered to the AntiInstagramNode in a run
MaxTicks      == 3      \* ticks of the AntiInstagramNode's timer in a run

CamThreads == 1..NumCamThreads
Intrinsics == 1..NumIntrinsics

\* ------------------------------------------------------------- input data
None == "None"

\* what __init__ may find at a calibration path
FileStates == {"absent", "unparsable", "valid"}
\* the state of a path os.path.isfile was never asked about
Unread == "unread"

\* the homography each file holds when it parses
RobotHomography   == "H_robot"
DefaultHomography == "H_default"

WHITE  == "WHITE"
YELLOW == "YELLOW"
RED    == "RED"

\* Segment.pixels_normalized holds two elements, which the callback indexes.
\* A well-formed segment holds two 2-D points (x, y); the spec's wire layout
\* names four floats (x0, y0, x1, y1), the only shape the callback's indices
\* 2 and 3 fit.  Image y grows downwards; with the principal point at (1, 1)
\* the rows 0 and 1 are at or above the horizon.
SegmentValues ==
    { [color |-> WHITE, pixels_normalized |-> << <<0, 2>>, <<2, 3>> >>],
      [color |-> WHITE, pixels_normalized |-> << <<0, 2, 2, 3>>, <<0, 2, 2, 3>> >>],
      [color |-> RED,   pixels_normalized |-> << <<1, 1, 0, 2>>, <<1, 1, 0, 2>> >>] }

RECURSIVE SeqsUpTo(_, _)
SeqsUpTo(S, n) ==
    IF n = 0 THEN { <<>> }
    ELSE LET shorter == SeqsUpTo(S, n - 1)
         IN  shorter \cup { Append(s, x) : s \in { t \in shorter : Len(t) = n - 1 }, x \in S }

SegmentLists == SeqsUpTo(SegmentValues, MaxSegments)

\* --------------------------------------------- dt_computer_vision stand-ins
\* CameraModel, Rectifier and GroundProjector live in the dt_computer_vision
\* library.  They are modelled from sections 4.1 and 4.2 of the specification as
\* pure functions of the camera they are called on, over integer coordinates.

NoCameraModel     == [intrinsics |-> 0, H |-> None]
NoGroundProjector == [camera |-> NoCameraModel]
NoPoint           == [x |-> 0, y |-> 0]

\* the value standing for a non-finite float (inf)
Infinity == 1000000

CameraModel(msg, H) == [intrinsics |-> msg, H |-> H]

GroundProjector(cam) == [camera |-> cam]

\* Rectifier.rectify_pixel: the distortion of intrinsics k shifts a pixel by
\* k - 1 columns, so a pixel under zero distortion rectifies to itself.
rectify_pixel(cam, p) == [x |-> p.x + (cam.intrinsics - 1), y |-> p.y]

\* CameraModel.pixel2vector: K^-1 applied to a rectified pixel (unit focal
\* length, principal point (2k - 1, 1) for intrinsics k).
pixel2vector(cam, p) == [x |-> p.x - (2 * cam.intrinsics - 1), y |-> p.y - 1]

\* A ray at or above the horizon never meets the ground plane.
Unprojectable(v) == v.y <= 0

\* the camera height the homography encodes, in units of 1/800 m
GroundScale(H) == IF H = RobotHomography THEN 300 ELSE 500

\* GroundProjector.vector2ground for a ray that meets the ground: forward
\* distance x and lateral offset y.
vector2ground(gp, v) ==
    [x |-> GroundScale(gp.camera.H) \div v.y,
     y |-> (0 - GroundScale(gp.camera.H) * v.x) \div v.y]

\* How vector2ground signals an unprojectable ray is the library's choice: it
\* raises, or it returns a non-finite point.
UnprojectableModes == {"raise", "inf"}

\* ------------------------------------------------------------ log entries
WarnNoRobotFile == "warn: Can't find calibration file, using default"
ErrNoFile       == "err: Found no calibration file ... aborting"
ErrParse        == "err: Error in parsing calibration file ... aborting"
WarnWaiting     == "warn: Waiting for a CameraInfo message"
InfoFirst       == "info: First projected segments published."
ErrBadCallback  == "err: bad callback (rospy caught an exception)"

\* --------------------------------------------------------- load_extrinsics
\* a faulty variant of load_extrinsics: no fallback, a missing robot file is fatal
load_extrinsics_nofallback(rf, df) ==
    [log      |-> (IF rf = "absent" THEN {ErrNoFile} ELSE {})
                    \cup (IF rf = "unparsable" THEN {ErrParse} ELSE {}),
     shutdown |-> rf # "valid",
     raised   |-> rf # "valid",
     homography |-> IF rf = "valid" THEN RobotHomography ELSE None]

\* a faulty variant of load_extrinsics: after the error is logged, a homography
\* is returned all the same
load_extrinsics_guess(rf, df) ==
    LET fallback   == rf = "absent"
        cali_file  == IF fallback THEN df ELSE rf
        notfound   == cali_file = "absent"
        parseerror == cali_file = "unparsable"
    IN  [log      |-> (IF fallback THEN {WarnNoRobotFile} ELSE {})
                        \cup (IF notfound THEN {ErrNoFile} ELSE {})
                        \cup (IF parseerror THEN {ErrParse} ELSE {}),
         shutdown |-> notfound \/ parseerror,
         raised   |-> FALSE,
         homography |-> IF fallback THEN DefaultHomography ELSE RobotHomography]

\* load_extrinsics over the states of the robot's file (rf) and of the default
\* file (df).  signal_shutdown only requests the shutdown and returns, so after
\* a missing file open() raises FileNotFoundError, and after a YAMLError the
\* return statement reads the unbound calib_data and raises UnboundLocalError.
load_extrinsics(rf, df) ==
    LET fallback   == rf = "absent"
        cali_file  == IF fallback THEN df ELSE rf
        notfound   == cali_file = "absent"
        parseerror == cali_file = "unparsable"
    IN  [log      |-> (IF fallback THEN {WarnNoRobotFile} ELSE {})
                        \cup (IF notfound THEN {ErrNoFile} ELSE {})
                        \cup (IF parseerror THEN {ErrParse} ELSE {}),
         shutdown |-> notfound \/ parseerror,
         raised   |-> notfound \/ parseerror,
         homography |-> IF notfound \/ parseerror THEN None
                        ELSE IF fallback THEN DefaultHomography ELSE RobotHomography]

\* ------------------------------------------------------------------- state
VARIABLES
    robot_file,            \* what load_extrinsics found at <namespace>.yaml
    default_file,          \* what load_extrinsics found at default.yaml
    lifecycle,             \* "new": before __init__; "running"; "dead": __init__ raised
    shutdown,              \* rospy.signal_shutdown was called
    log,                   \* the entries logged so far
    homography,            \* self.homography
    camera,                \* self.camera
    ground_projector,      \* self.ground_projector
    camera_info_received,  \* self.camera_info_received
    first_processing_done, \* self.first_processing_done
    debug_img_bg,          \* self.debug_img_bg
    num_connections,       \* self.pub_debug_img.get_num_connections()
    cam_pc,                \* per thread: the line cb_camera_info is at
    cam_msg,               \* per thread: the msg cb_camera_info was called with
    cam_count,             \* camera-info messages delivered so far
    seg_pc,                \* the line lineseglist_cb is at
    seglist_msg,           \* lineseglist_cb's argument
    seglist_out,           \* lineseglist_cb's local seglist_out
    seg_i,                 \* index of received_segment in seglist_msg.segments
    pt0, pt1,              \* the locals p0/p0_rect/p0_norm/grounded_p0 and p1/...
    seg_count,             \* segment batches delivered so far
    pub_lineseglist,       \* messages published on ~lineseglist_out
    pub_debug_img,         \* messages published on ~debug/ground_projection_image
    twin                   \* a second run of the node, as a node record

nodevars == <<lifecycle, shutdown, log, homography, camera, ground_projector,
              camera_info_received, first_processing_done, debug_img_bg,
              num_connections, cam_pc, cam_msg, cam_count, seg_pc, seglist_msg,
              seglist_out, seg_i, pt0, pt1, seg_count, pub_lineseglist,
              pub_debug_img>>

\* the ground projection node, its calibration files and its second run
groundvars == <<robot_file, default_file, nodevars, twin>>

\* The state of the AntiInstagramNode, which runs in a process of its own.
VARIABLES
    ai_lifecycle,          \* "new": before __init__; "starting": between lines 49
                           \* and 54; "running": after line 55
    image_msg,             \* self.image_msg, the latest-frame slot
    mutex,                 \* self.mutex: the set of threads that hold it
    thresholds,            \* self.ai.lower_threshold / higher_threshold
    pub_thresholds,        \* messages published on ~thresholds
    ai_log,                \* the entries logged so far
    ai_pc,                 \* per thread: the line the callback is at
    ai_arg,                \* per subscriber thread: store_image_msg's argument
    image,                 \* decode_image_msg's local image
    image_count,           \* images delivered so far
    tick_count             \* timer ticks so far

aivars == <<ai_lifecycle, image_msg, mutex, thresholds, pub_thresholds, ai_log,
            ai_pc, ai_arg, image, image_count, tick_count>>

vars == <<groundvars, aivars>>

NoSegmentList == [header |-> 0, segments |-> <<>>]

\* the node's state as one record
Node ==
    [lifecycle |-> lifecycle, shutdown |-> shutdown, log |-> log,
     homography |-> homography, camera |-> camera,
     ground_projector |-> ground_projector,
     camera_info_received |-> camera_info_received,
     first_processing_done |-> first_processing_done,
     debug_img_bg |-> debug_img_bg, num_connections |-> num_connections,
     cam_pc |-> cam_pc, cam_msg |-> cam_msg, cam_count |-> cam_count,
     seg_pc |-> seg_pc, seglist_msg |-> seglist_msg, seglist_out |-> seglist_out,
     seg_i |-> seg_i, pt0 |-> pt0, pt1 |-> pt1, seg_count |-> seg_count,
     pub_lineseglist |-> pub_lineseglist, pub_debug_img |-> pub_debug_img]

\* the next state of the node is the record n
Commit(n) ==
    /\ lifecycle' = n.lifecycle
    /\ shutdown' = n.shutdown
    /\ log' = n.log
    /\ homography' = n.homography
    /\ camera' = n.camera
    /\ ground_projector' = n.ground_projector
    /\ camera_info_received' = n.camera_info_received
    /\ first_processing_done' = n.first_processing_done
    /\ debug_img_bg' = n.debug_img_bg
    /\ num_connections' = n.num_connections
    /\ cam_pc' = n.cam_pc
    /\ cam_msg' = n.cam_msg
    /\ cam_count' = n.cam_count
    /\ seg_pc' = n.seg_pc
    /\ seglist_msg' = n.seglist_msg
    /\ seglist_out' = n.seglist_out
    /\ seg_i' = n.seg_i
    /\ pt0' = n.pt0
    /\ pt1' = n.pt1
    /\ seg_count' = n.seg_count
    /\ pub_lineseglist' = n.pub_lineseglist
    /\ pub_debug_img' = n.pub_debug_img

\* the state of the node is the record n
Holds(n) ==
    /\ lifecycle = n.lifecycle
    /\ shutdown = n.shutdown
    /\ log = n.log
    /\ homography = n.homography
    /\ camera = n.camera
    /\ ground_projector = n.ground_projector
    /\ camera_info_received = n.camera_info_received
    /\ first_processing_done = n.first_processing_done
    /\ debug_img_bg = n.debug_img_bg
    /\ num_connections = n.num_connections
    /\ cam_pc = n.cam_pc
    /\ cam_msg = n.cam_msg
    /\ cam_count = n.cam_count
    /\ seg_pc = n.seg_pc
    /\ seglist_msg = n.seglist_msg
    /\ seglist_out = n.seglist_out
    /\ seg_i = n.seg_i
    /\ pt0 = n.pt0
    /\ pt1 = n.pt1
    /\ seg_count = n.seg_count
    /\ pub_lineseglist = n.pub_lineseglist
    /\ pub_debug_img = n.pub_debug_img

\* the process before GroundProjectionNode(...) is called
NewNode ==
    [lifecycle |-> "new", shutdown |-> FALSE, log |-> {},
     homography |-> None, camera |-> NoCameraModel,
     ground_projector |-> NoGroundProjector,
     camera_info_received |-> FALSE, first_processing_done |-> FALSE,
     debug_img_bg |-> None, num_connections |-> 0,
     cam_pc |-> [t \in CamThreads |-> "idle"],
     cam_msg |-> [t \in CamThreads |-> 0], cam_count |-> 0,
     seg_pc |-> "idle", seglist_msg |-> NoSegmentList,
     seglist_out |-> NoSegmentList, seg_i |-> 0, pt0 |-> NoPoint, pt1 |-> NoPoint,
     seg_count |-> 0, pub_lineseglist |-> <<>>, pub_debug_img |-> <<>>]

\* ---------------------------------------------------------------- __init__
\* GroundProjectionNode.__init__: when load_extrinsics raises, the exception
\* leaves the constructor and the main module, no subscriber is registered and
\* the process ends.
init(n, rf, df) ==
    LET r == load_extrinsics(rf, df)
    IN  [n EXCEPT !.log = n.log \cup r.log,
                  !.shutdown = r.shutdown,
                  !.homography = r.homography,
                  !.lifecycle = IF r.raised THEN "dead" ELSE "running",
                  !.first_processing_done = FALSE,
                  !.camera_info_received = FALSE]

\* ---------------------------------------------------------- cb_camera_info
\* line 98: the idempotency check
NotYetReceived(n) == ~n.camera_info_received

\* rospy calls cb_camera_info(msg) on thread t, which evaluates line 98
cb_camera_info_l98(n, t, msg) ==
    [n EXCEPT !.cam_count = n.cam_count + 1,
              !.cam_msg[t] = msg,
              !.cam_pc[t] = IF NotYetReceived(n) THEN "l106" ELSE "l116"]

\* a faulty variant of cb_camera_info_l106: the flag is set as soon as the
\* Camera Model is built, before the Ground Projector exists
cb_camera_info_l106_early(n, t) ==
    [n EXCEPT !.camera = CameraModel(n.cam_msg[t], n.homography),
              !.camera_info_received = TRUE,
              !.cam_pc[t] = "l115"]

\* lines 99-113: self.camera = CameraModel(...)
cb_camera_info_l106(n, t) ==
    [n EXCEPT !.camera = CameraModel(n.cam_msg[t], n.homography),
              !.cam_pc[t] = "l115"]

\* line 115: self.ground_projector = GroundProjector(camera=self.camera)
cb_camera_info_l115(n, t) ==
    [n EXCEPT !.ground_projector = GroundProjector(n.camera),
              !.cam_pc[t] = "l116"]

\* line 116: self.camera_info_received = True, and the callback returns
cb_camera_info_l116(n, t) ==
    [n EXCEPT !.camera_info_received = TRUE,
              !.cam_msg[t] = 0,
              !.cam_pc[t] = "idle"]

\* ------------------------------------------------------------- debug_image
Abs(a) == IF a < 0 THEN 0 - a ELSE a

\* Python's int(): truncation towards zero of a / b, b > 0
Trunc(a, b) == IF a >= 0 THEN a \div b ELSE 0 - ((0 - a) \div b)

\* lines 224-301: the grid, the labels and the robot marker
Background == "gray 400x400, grid, labels, robot marker"

\* line 304
color_map(color) ==
    CASE color = WHITE  -> <<255, 255, 255>>
      [] color = RED    -> <<0, 0, 255>>
      [] color = YELLOW -> <<0, 255, 255>>
      [] OTHER          -> <<0, 0, 0>>

\* lines 310-313: no coordinate of the segment is beyond 0.50 m
InScope(segment) ==
    ~ \E v \in { segment.points[1].x, segment.points[1].y,
                 segment.points[2].x, segment.points[2].y } : Abs(v) > 400

\* a faulty variant of PixelOf: floor division in place of int()
PixelOf_floor(point) ==
    [col |-> ((0 - point.y) \div 2) + 200, row |-> ((0 - point.x) \div 2) + 300]

\* lines 316-317: (int(y * -400) + 200, int(x * -400) + 300)
PixelOf(point) ==
    [col |-> Trunc(0 - point.y, 2) + 200, row |-> Trunc(0 - point.x, 2) + 300]

\* lines 314-320
Line(segment) ==
    [pt1 |-> PixelOf(segment.points[1]), pt2 |-> PixelOf(segment.points[2]),
     color |-> color_map(segment.color)]

\* a faulty variant of debug_image: the segments are drawn on the cached
\* background itself, not on a copy of it
debug_image_nocopy(bg, seg_list) ==
    LET background == IF bg = None THEN Background ELSE bg
        shown == SelectSeq(seg_list.segments, InScope)
        drawn == IF shown = <<>> THEN background
                 ELSE "background with segments drawn on it"
    IN  [debug_img_bg |-> drawn,
         image |-> [background |-> background,
                    lines |-> [i \in 1..Len(shown) |-> Line(shown[i])]]]

\* debug_image: the background is generated on the first call, the image is a
\* copy of it with the segments in scope drawn on it in order
debug_image(bg, seg_list) ==
    LET background == IF bg = None THEN Background ELSE bg
        shown == SelectSeq(seg_list.segments, InScope)
    IN  [debug_img_bg |-> background,
         image |-> [background |-> background,
                    lines |-> [i \in 1..Len(shown) |-> Line(shown[i])]]]

\* ---------------------------------------------------------- lineseglist_cb
\* lines 128-133
fill_point_msg(pt) == [x |-> pt.x, y |-> pt.y, z |-> 0]

\* l[k] for a 0-based index k, which raises IndexError beyond the end
CanIndex(l, k) == k < Len(l)
Index(l, k) == l[k + 1]

\* lines 141-143: whether the extraction of p0 and p1 goes through
CanExtract(received_segment) ==
    LET l0 == received_segment.pixels_normalized[1]
        l1 == received_segment.pixels_normalized[2]
    IN  CanIndex(l0, 0) /\ CanIndex(l0, 1) /\ CanIndex(l1, 2) /\ CanIndex(l1, 3)

\* line 142
ExtractP0(received_segment) ==
    LET l0 == received_segment.pixels_normalized[1]
    IN  [x |-> Index(l0, 0), y |-> Index(l0, 1)]

\* line 143
ExtractP1(received_segment) ==
    LET l1 == received_segment.pixels_normalized[2]
    IN  [x |-> Index(l1, 2), y |-> Index(l1, 3)]

\* an exception leaves lineseglist_cb: rospy logs it, the locals are gone
Raise(n) ==
    [n EXCEPT !.log = n.log \cup {ErrBadCallback},
              !.seg_pc = "idle",
              !.seglist_msg = NoSegmentList, !.seglist_out = NoSegmentList,
              !.seg_i = 0, !.pt0 = NoPoint, !.pt1 = NoPoint]

\* lineseglist_cb returns
Return(n) ==
    [n EXCEPT !.seg_pc = "idle",
              !.seglist_msg = NoSegmentList, !.seglist_out = NoSegmentList,
              !.seg_i = 0, !.pt0 = NoPoint, !.pt1 = NoPoint]

\* a faulty variant of Ready: the readiness check is missing
Ready_always(n) == TRUE

\* line 135: the readiness check
Ready(n) == n.camera_info_received

\* rospy calls lineseglist_cb(seglist_msg): lines 135-138 and 170-171
lineseglist_cb_l135(n, segments) ==
    LET msg == [header |-> n.seg_count + 1, segments |-> segments]
    IN  IF Ready(n)
        THEN [n EXCEPT !.seg_count = n.seg_count + 1,
                       !.seglist_msg = msg,
                       !.seglist_out = [header |-> msg.header, segments |-> <<>>],
                       !.seg_i = 1,
                       !.seg_pc = IF segments = <<>> THEN "l160" ELSE "l145"]
        ELSE [n EXCEPT !.seg_count = n.seg_count + 1,
                       !.log = n.log \cup {WarnWaiting}]

\* lines 141-145: p0 and p1 are extracted, p0 is rectified
lineseglist_cb_l145(n) ==
    LET received_segment == n.seglist_msg.segments[n.seg_i]
    IN  IF ~CanExtract(received_segment) THEN Raise(n)
        ELSE [n EXCEPT !.pt0 = rectify_pixel(n.camera, ExtractP0(received_segment)),
                       !.pt1 = ExtractP1(received_segment),
                       !.seg_pc = "l146"]

\* line 146
lineseglist_cb_l146(n) ==
    [n EXCEPT !.pt1 = rectify_pixel(n.camera, n.pt1), !.seg_pc = "l148"]

\* line 148
lineseglist_cb_l148(n) ==
    [n EXCEPT !.pt0 = pixel2vector(n.camera, n.pt0), !.seg_pc = "l149"]

\* line 149
lineseglist_cb_l149(n) ==
    [n EXCEPT !.pt1 = pixel2vector(n.camera, n.pt1), !.seg_pc = "l151"]

\* the ground point vector2ground returns for v; only called when it returns
Grounded(gp, v) ==
    IF Unprojectable(v) THEN [x |-> Infinity, y |-> Infinity]
    ELSE vector2ground(gp, v)

\* line 151
lineseglist_cb_l151(n, mode) ==
    IF Unprojectable(n.pt0) /\ mode = "raise" THEN Raise(n)
    ELSE [n EXCEPT !.pt0 = Grounded(n.ground_projector, n.pt0), !.seg_pc = "l152"]

\* the segment appended at line 159
NewSegment(received_segment, grounded_p0, grounded_p1) ==
    [points |-> <<fill_point_msg(grounded_p0), fill_point_msg(grounded_p1)>>,
     color |-> received_segment.color]

\* lines 152-159 and the loop's next iteration (line 138)
lineseglist_cb_l152(n, mode) ==
    LET received_segment == n.seglist_msg.segments[n.seg_i]
        grounded_p1 == Grounded(n.ground_projector, n.pt1)
    IN  IF Unprojectable(n.pt1) /\ mode = "raise" THEN Raise(n)
        ELSE [n EXCEPT !.seglist_out.segments =
                           Append(n.seglist_out.segments,
                                  NewSegment(received_segment, n.pt0, grounded_p1)),
                       !.pt0 = NoPoint, !.pt1 = NoPoint,
                       !.seg_i = n.seg_i + 1,
                       !.seg_pc = IF n.seg_i < Len(n.seglist_msg.segments)
                                  THEN "l145" ELSE "l160"]

\* a faulty variant of lineseglist_cb_l160: with a debug consumer, the batch
\* published is the one the debug image shows
lineseglist_cb_l160_shown(n) ==
    [n EXCEPT !.pub_lineseglist =
                  Append(n.pub_lineseglist,
                         IF n.num_connections > 0
                         THEN [n.seglist_out EXCEPT
                                 !.segments = SelectSeq(n.seglist_out.segments, InScope)]
                         ELSE n.seglist_out),
              !.log = IF n.first_processing_done THEN n.log
                      ELSE n.log \cup {InfoFirst},
              !.first_processing_done = TRUE,
              !.seg_pc = "l166"]

\* lines 160-164
lineseglist_cb_l160(n) ==
    [n EXCEPT !.pub_lineseglist = Append(n.pub_lineseglist, n.seglist_out),
              !.log = IF n.first_processing_done THEN n.log
                      ELSE n.log \cup {InfoFirst},
              !.first_processing_done = TRUE,
              !.seg_pc = "l166"]

\* a faulty variant of HasConsumer: the debug image is published whoever listens
HasConsumer_always(n) == TRUE

\* line 166
HasConsumer(n) == n.num_connections > 0

\* a faulty variant of lineseglist_cb_l166: the callback ends by clearing the
\* readiness flag, so that the next camera-info message rebuilds the model
lineseglist_cb_l166_rearm(n) ==
    IF HasConsumer(n)
    THEN LET d == debug_image(n.debug_img_bg, n.seglist_out)
         IN  [Return(n) EXCEPT
                 !.camera_info_received = FALSE,
                 !.debug_img_bg = d.debug_img_bg,
                 !.pub_debug_img = Append(n.pub_debug_img,
                                          [header |-> n.seglist_out.header,
                                           image |-> d.image])]
    ELSE [Return(n) EXCEPT !.camera_info_received = FALSE]

\* lines 166-169, then the callback returns
lineseglist_cb_l166(n) ==
    IF HasConsumer(n)
    THEN LET d == debug_image(n.debug_img_bg, n.seglist_out)
         IN  [Return(n) EXCEPT
                 !.debug_img_bg = d.debug_img_bg,
                 !.pub_debug_img = Append(n.pub_debug_img,
                                          [header |-> n.seglist_out.header,
                                           image |-> d.image])]
    ELSE Return(n)

\* ---------------------------------------------------------------- guards
CanConstruct(n) == n.lifecycle = "new"

CanCamInfoArrive(n, t) ==
    n.lifecycle = "running" /\ n.cam_pc[t] = "idle" /\ n.cam_count < MaxCamInfos

CanSegListArrive(n) ==
    n.lifecycle = "running" /\ n.seg_pc = "idle" /\ n.seg_count < MaxBatches

\* ---------------------------------------------------------------- actions
Files == UNCHANGED <<robot_file, default_file>>

\* The second run, when there is one, is fed what the node is fed and takes
\* the same step of the same callback; it never has a debug consumer.
TwinDoes(can, next) ==
    twin' = IF twin.lifecycle # "absent" /\ can THEN next ELSE twin

\* the main module constructs the node
Construct ==
    /\ CanConstruct(Node)
    /\ \E rf \in FileStates, df \in FileStates :
          /\ Commit(init(Node, rf, df))
          /\ TwinDoes(CanConstruct(twin), init(twin, rf, df))
          /\ robot_file' = rf
          /\ default_file' = IF rf = "absent" THEN df ELSE Unread
    /\ UNCHANGED aivars

\* a consumer subscribes to the debug image topic
Connect ==
    /\ lifecycle = "running"
    /\ num_connections < MaxConnections
    /\ Commit([Node EXCEPT !.num_connections = num_connections + 1])
    /\ Files /\ UNCHANGED <<twin, aivars>>

\* a consumer of the debug image topic goes away
Disconnect ==
    /\ lifecycle = "running"
    /\ num_connections > 0
    /\ Commit([Node EXCEPT !.num_connections = num_connections - 1])
    /\ Files /\ UNCHANGED <<twin, aivars>>

CamInfoArrives(t) ==
    /\ CanCamInfoArrive(Node, t)
    /\ \E msg \in Intrinsics :
          /\ Commit(cb_camera_info_l98(Node, t, msg))
          /\ TwinDoes(CanCamInfoArrive(twin, t), cb_camera_info_l98(twin, t, msg))
    /\ Files /\ UNCHANGED aivars

CamInfoBuildCamera(t) ==
    /\ cam_pc[t] = "l106"
    /\ Commit(cb_camera_info_l106(Node, t))
    /\ TwinDoes(twin.cam_pc[t] = "l106", cb_camera_info_l106(twin, t))
    /\ Files /\ UNCHANGED aivars

CamInfoBuildProjector(t) ==
    /\ cam_pc[t] = "l115"
    /\ Commit(cb_camera_info_l115(Node, t))
    /\ TwinDoes(twin.cam_pc[t] = "l115", cb_camera_info_l115(twin, t))
    /\ Files /\ UNCHANGED aivars

CamInfoSetReceived(t) ==
    /\ cam_pc[t] = "l116"
    /\ Commit(cb_camera_info_l116(Node, t))
    /\ TwinDoes(twin.cam_pc[t] = "l116", cb_camera_info_l116(twin, t))
    /\ Files /\ UNCHANGED aivars

SegListArrives ==
    /\ CanSegListArrive(Node)
    /\ \E segments \in SegmentLists :
          /\ Commit(lineseglist_cb_l135(Node, segments))
          /\ TwinDoes(CanSegListArrive(twin), lineseglist_cb_l135(twin, segments))
    /\ Files /\ UNCHANGED aivars

SegExtract ==
    /\ seg_pc = "l145"
    /\ Commit(lineseglist_cb_l145(Node))
    /\ TwinDoes(twin.seg_pc = "l145", lineseglist_cb_l145(twin))
    /\ Files /\ UNCHANGED aivars

SegRectifyP1 ==
    /\ seg_pc = "l146"
    /\ Commit(lineseglist_cb_l146(Node))
    /\ TwinDoes(twin.seg_pc = "l146", lineseglist_cb_l146(twin))
    /\ Files /\ UNCHANGED aivars

SegNormalizeP0 ==
    /\ seg_pc = "l148"
    /\ Commit(lineseglist_cb_l148(Node))
    /\ TwinDoes(twin.seg_pc = "l148", lineseglist_cb_l148(twin))
    /\ Files /\ UNCHANGED aivars

SegNormalizeP1 ==
    /\ seg_pc = "l149"
    /\ Commit(lineseglist_cb_l149(Node))
    /\ TwinDoes(twin.seg_pc = "l149", lineseglist_cb_l149(twin))
    /\ Files /\ UNCHANGED aivars

SegGroundP0 ==
    /\ seg_pc = "l151"
    /\ \E mode \in UnprojectableModes :
          /\ Commit(lineseglist_cb_l151(Node, mode))
          /\ TwinDoes(twin.seg_pc = "l151", lineseglist_cb_l151(twin, mode))
    /\ Files /\ UNCHANGED aivars

SegGroundP1 ==
    /\ seg_pc = "l152"
    /\ \E mode \in UnprojectableModes :
          /\ Commit(lineseglist_cb_l152(Node, mode))
          /\ TwinDoes(twin.seg_pc = "l152", lineseglist_cb_l152(twin, mode))
    /\ Files /\ UNCHANGED aivars

SegPublish ==
    /\ seg_pc = "l160"
    /\ Commit(lineseglist_cb_l160(Node))
    /\ TwinDoes(twin.seg_pc = "l160", lineseglist_cb_l160(twin))
    /\ Files /\ UNCHANGED aivars

SegDebug ==
    /\ seg_pc = "l166"
    /\ Commit(lineseglist_cb_l166(Node))
    /\ TwinDoes(twin.seg_pc = "l166", lineseglist_cb_l166(twin))
    /\ Files /\ UNCHANGED aivars

\* ======================================================= AntiInstagramNode
StoreThreads == 1..NumStoreThreads

\* the thread of the rospy.Timer of line 49
TimerThread == 0

\* what the data of a CompressedImage may be
Payloads == {"jpeg", "garbage"}

\* self.image_msg = None
NoImageMsg == [seq |-> 0, data |-> None]

\* decode_image_msg's local image before it is bound
Unbound == [bound |-> FALSE, of |-> 0]

\* the thresholds of a new AntiInstagram, and those update() computes
InitialThresholds == [from |-> 0]
update(img) == [from |-> img.of]

\* the message of lines 79-81
AntiInstagramThresholds(th) == [low |-> th.from, high |-> th.from]

\* CvBridge.compressed_imgmsg_to_cv2: what the call of line 67 does with msg
compressed_imgmsg_to_cv2(msg) ==
    IF msg = NoImageMsg THEN "AttributeError"
    ELSE IF msg.data = "garbage" THEN "ValueError"
    ELSE "image"

LogInitialized  == "info: Initialized."
LogWaiting      == "info: Waiting for first image!"
LogCannotDecode == "info: Anti_instagram cannot decode image"
ErrTimerThread  == "err: exception in the timer thread"

\* a faulty variant of CanAcquire: the lock never blocks
CanAcquire_always(m) == TRUE

\* Lock.acquire, as the with statements of lines 61 and 65 call it, blocks
\* while another thread holds the lock
CanAcquire(m) == m = {}

\* a faulty variant of SlotEmpty: the check of line 73 is missing
SlotEmpty_never(msg) == FALSE

\* line 73
SlotEmpty(msg) == msg = NoImageMsg

\* lines 25-49: the subscriber and the timer are registered
AIConstruct ==
    /\ ai_lifecycle = "new"
    /\ ai_lifecycle' = "starting"
    /\ UNCHANGED <<image_msg, mutex, thresholds, pub_thresholds, ai_log, ai_pc,
                   ai_arg, image, image_count, tick_count>>
    /\ UNCHANGED groundvars

\* lines 52-58: the estimator, the empty slot and the lock are created
AIInitialized ==
    /\ ai_lifecycle = "starting"
    /\ ai_lifecycle' = "running"
    /\ thresholds' = InitialThresholds
    /\ image_msg' = NoImageMsg
    /\ mutex' = {}
    /\ ai_log' = ai_log \cup {LogInitialized}
    /\ UNCHANGED <<pub_thresholds, ai_pc, ai_arg, image, image_count, tick_count>>
    /\ UNCHANGED groundvars

\* rospy calls store_image_msg(image_msg) on thread t.  Before line 55 has run
\* self.mutex does not exist: AttributeError, which rospy catches and logs.
ImageArrives(t) ==
    /\ ai_lifecycle \in {"starting", "running"}
    /\ ai_pc[t] = "idle"
    /\ image_count < MaxImages
    /\ image_count' = image_count + 1
    /\ \E data \in Payloads :
          IF ai_lifecycle = "running"
          THEN /\ ai_arg' = [ai_arg EXCEPT ![t] = [seq |-> image_count + 1, data |-> data]]
               /\ ai_pc' = [ai_pc EXCEPT ![t] = "l61"]
               /\ UNCHANGED ai_log
          ELSE /\ ai_log' = ai_log \cup {ErrBadCallback}
               /\ UNCHANGED <<ai_arg, ai_pc>>
    /\ UNCHANGED <<ai_lifecycle, image_msg, mutex, thresholds, pub_thresholds,
                   image, tick_count>>
    /\ UNCHANGED groundvars

\* line 61: with self.mutex
StoreAcquire(t) ==
    /\ ai_pc[t] = "l61"
    /\ CanAcquire(mutex)
    /\ mutex' = mutex \cup {t}
    /\ ai_pc' = [ai_pc EXCEPT ![t] = "l62"]
    /\ UNCHANGED <<ai_lifecycle, image_msg, thresholds, pub_thresholds, ai_log,
                   ai_arg, image, image_count, tick_count>>
    /\ UNCHANGED groundvars

\* line 62: self.image_msg = image_msg
StoreAssign(t) ==
    /\ ai_pc[t] = "l62"
    /\ image_msg' = ai_arg[t]
    /\ ai_pc' = [ai_pc EXCEPT ![t] = "l62_exit"]
    /\ UNCHANGED <<ai_lifecycle, mutex, thresholds, pub_thresholds, ai_log,
                   ai_arg, image, image_count, tick_count>>
    /\ UNCHANGED groundvars

\* the with block of line 61 ends: the lock is released, the callback returns
StoreRelease(t) ==
    /\ ai_pc[t] = "l62_exit"
    /\ mutex' = mutex \ {t}
    /\ ai_pc' = [ai_pc EXCEPT ![t] = "idle"]
    /\ ai_arg' = [ai_arg EXCEPT ![t] = NoImageMsg]
    /\ UNCHANGED <<ai_lifecycle, image_msg, thresholds, pub_thresholds, ai_log,
                   image, image_count, tick_count>>
    /\ UNCHANGED groundvars

\* What becomes of the timer thread when an exception leaves its callback is
\* rospy's matter: the thread ends, or it goes on to the next tick.
TimerFates == {"dead", "idle"}

\* the timer calls calculate_new_parameters(event): lines 73-75.  Before line
\* 54 has run self.image_msg does not exist: AttributeError.
Tick ==
    /\ ai_lifecycle \in {"starting", "running"}
    /\ ai_pc[TimerThread] = "idle"
    /\ tick_count < MaxTicks
    /\ tick_count' = tick_count + 1
    /\ LET raises  == ai_lifecycle = "starting"
           waiting == ~raises /\ SlotEmpty(image_msg)
       IN  /\ ai_log' = IF raises THEN ai_log \cup {ErrTimerThread}
                        ELSE IF waiting THEN ai_log \cup {LogWaiting}
                        ELSE ai_log
           /\ \E fate \in TimerFates :
                 ai_pc' = [ai_pc EXCEPT ![TimerThread] =
                              IF raises THEN fate
                              ELSE IF waiting THEN "idle" ELSE "l65"]
    /\ UNCHANGED <<ai_lifecycle, image_msg, mutex, thresholds, pub_thresholds,
                   ai_arg, image, image_count>>
    /\ UNCHANGED groundvars

\* line 77 calls decode_image_msg; line 65: with self.mutex
DecodeAcquire ==
    /\ ai_pc[TimerThread] = "l65"
    /\ CanAcquire(mutex)
    /\ mutex' = mutex \cup {TimerThread}
    /\ ai_pc' = [ai_pc EXCEPT ![TimerThread] = "l67"]
    /\ UNCHANGED <<ai_lifecycle, image_msg, thresholds, pub_thresholds, ai_log,
                   ai_arg, image, image_count, tick_count>>
    /\ UNCHANGED groundvars

\* lines 66-69: the slot is decoded.  A ValueError is logged and image stays
\* unbound; any other exception leaves the with block, which releases the
\* lock, and the callback.
Decode ==
    /\ ai_pc[TimerThread] = "l67"
    /\ LET r == compressed_imgmsg_to_cv2(image_msg)
       IN  /\ image' = IF r = "image" THEN [bound |-> TRUE, of |-> image_msg.seq]
                       ELSE image
           /\ ai_log' = IF r = "ValueError" THEN ai_log \cup {LogCannotDecode}
                        ELSE IF r = "image" THEN ai_log
                        ELSE ai_log \cup {ErrTimerThread}
           /\ mutex' = IF r \in {"image", "ValueError"} THEN mutex
                       ELSE mutex \ {TimerThread}
           /\ \E fate \in TimerFates :
                 ai_pc' = [ai_pc EXCEPT ![TimerThread] =
                              IF r \in {"image", "ValueError"} THEN "l65_exit"
                              ELSE fate]
    /\ UNCHANGED <<ai_lifecycle, image_msg, thresholds, pub_thresholds, ai_arg,
                   image_count, tick_count>>
    /\ UNCHANGED groundvars

\* the with block of line 65 ends: the lock is released
DecodeRelease ==
    /\ ai_pc[TimerThread] = "l65_exit"
    /\ mutex' = mutex \ {TimerThread}
    /\ ai_pc' = [ai_pc EXCEPT ![TimerThread] = "l70"]
    /\ UNCHANGED <<ai_lifecycle, image_msg, thresholds, pub_thresholds, ai_log,
                   ai_arg, image, image_count, tick_count>>
    /\ UNCHANGED groundvars

\* line 70: return image.  After a ValueError image was never bound:
\* UnboundLocalError, which leaves decode_image_msg and
\* calculate_new_parameters.
DecodeReturn ==
    /\ ai_pc[TimerThread] = "l70"
    /\ ai_log' = IF image.bound THEN ai_log ELSE ai_log \cup {ErrTimerThread}
    /\ \E fate \in TimerFates :
          ai_pc' = [ai_pc EXCEPT ![TimerThread] = IF image.bound THEN "l77" ELSE fate]
    /\ UNCHANGED <<ai_lifecycle, image_msg, mutex, thresholds, pub_thresholds,
                   ai_arg, image, image_count, tick_count>>
    /\ UNCHANGED groundvars

\* line 77: self.ai.update(<the decoded image>)
Update ==
    /\ ai_pc[TimerThread] = "l77"
    /\ thresholds' = update(image)
    /\ image' = Unbound
    /\ ai_pc' = [ai_pc EXCEPT ![TimerThread] = "l79"]
    /\ UNCHANGED <<ai_lifecycle, image_msg, mutex, pub_thresholds, ai_log,
                   ai_arg, image_count, tick_count>>
    /\ UNCHANGED groundvars

\* lines 79-82: the thresholds are published, the callback returns
Publish ==
    /\ ai_pc[TimerThread] = "l79"
    /\ pub_thresholds' = Append(pub_thresholds, AntiInstagramThresholds(thresholds))
    /\ ai_pc' = [ai_pc EXCEPT ![TimerThread] = "idle"]
    /\ UNCHANGED <<ai_lifecycle, image_msg, mutex, thresholds, ai_log, ai_arg,
                   image, image_count, tick_count>>
    /\ UNCHANGED groundvars

\* the process before AntiInstagramNode(...) is called
AINew ==
    /\ ai_lifecycle = "new"
    /\ image_msg = NoImageMsg
    /\ mutex = {}
    /\ thresholds = InitialThresholds
    /\ pub_thresholds = <<>>
    /\ ai_log = {}
    /\ ai_pc = [t \in StoreThreads \cup {TimerThread} |-> "idle"]
    /\ ai_arg = [t \in StoreThreads |-> NoImageMsg]
    /\ image = Unbound
    /\ image_count = 0
    /\ tick_count = 0

\* no second run
NoTwin == [lifecycle |-> "absent"]

Init ==
    /\ robot_file = Unread
    /\ default_file = Unread
    /\ Holds(NewNode)
    /\ twin = NoTwin
    /\ AINew

\* the node and a second run of it
InitTwin ==
    /\ robot_file = Unread
    /\ default_file = Unread
    /\ Holds(NewNode)
    /\ twin = NewNode
    /\ AINew

Next ==
    \/ Construct
    \/ Connect
    \/ Disconnect
    \/ \E t \in CamThreads : CamInfoArrives(t)
    \/ \E t \in CamThreads : CamInfoBuildCamera(t)
    \/ \E t \in CamThreads : CamInfoBuildProjector(t)
    \/ \E t \in CamThreads : CamInfoSetReceived(t)
    \/ SegListArrives
    \/ SegExtract
    \/ SegRectifyP1
    \/ SegNormalizeP0
    \/ SegNormalizeP1
    \/ SegGroundP0
    \/ SegGroundP1
    \/ SegPublish
    \/ SegDebug

Spec == Init /\ [][Next]_vars

SpecTwin == InitTwin /\ [][Next]_vars

\* the AntiInstagramNode alone
NextAI ==
    \/ AIConstruct
    \/ AIInitialized
    \/ \E t \in StoreThreads : ImageArrives(t)
    \/ \E t \in StoreThreads : StoreAcquire(t)
    \/ \E t \in StoreThreads : StoreAssign(t)
    \/ \E t \in StoreThreads : StoreRelease(t)
    \/ Tick
    \/ DecodeAcquire
    \/ Decode
    \/ DecodeRelease
    \/ DecodeReturn
    \/ Update
    \/ Publish

SpecAI == Init /\ [][NextAI]_vars

\* ------------------------------------------------------------- the renderer
\* The ground points dt_computer_vision may hand back to lineseglist_cb, as
\* the segments lines 154-159 build from them: the origin, the edge of the
\* scope (0.5 m), just beyond it, half a unit either side of a pixel, inside
\* the scope but further than 0.5 m from the origin, and a non-finite point.
GroundSegment(x0, y0, x1, y1, color) ==
    NewSegment([color |-> color], [x |-> x0, y |-> y0], [x |-> x1, y |-> y1])

GroundSegmentValues ==
    { GroundSegment(0, 0, 200, 0, WHITE),
      GroundSegment(80, -400, 80, 400, YELLOW),
      GroundSegment(401, 0, 0, 0, RED),
      GroundSegment(1, -1, -1, 1, WHITE),
      GroundSegment(320, 320, 0, 0, YELLOW),
      GroundSegment(Infinity, Infinity, 100, 100, RED) }

GroundSegmentLists == SeqsUpTo(GroundSegmentValues, MaxSegments)

\* lines 135-159 for a batch whose segments project to the ground segments
\* given: seglist_out is complete and the callback is about to publish it
lineseglist_cb_l159(n, segments) ==
    [n EXCEPT !.seg_count = n.seg_count + 1,
              !.seglist_msg = [header |-> n.seg_count + 1, segments |-> <<>>],
              !.seglist_out = [header |-> n.seg_count + 1, segments |-> segments],
              !.seg_pc = "l160"]

SegProjected ==
    /\ CanSegListArrive(Node)
    /\ Ready(Node)
    /\ \E segments \in GroundSegmentLists :
          Commit(lineseglist_cb_l159(Node, segments))
    /\ Files /\ UNCHANGED <<twin, aivars>>

\* the node after __init__ found the robot's calibration file and
\* cb_camera_info processed one camera-info message
ReadyNode ==
    cb_camera_info_l116(
        cb_camera_info_l115(
            cb_camera_info_l106(
                cb_camera_info_l98(init(NewNode, "valid", Unread), 1, 1), 1), 1), 1)

InitRender ==
    /\ robot_file = "valid"
    /\ default_file = Unread
    /\ Holds(ReadyNode)
    /\ twin = NoTwin
    /\ AINew

\* the ready node, fed batches by what they project to
NextRender ==
    \/ Connect
    \/ Disconnect
    \/ SegProjected
    \/ SegPublish
    \/ SegDebug

SpecRender == InitRender /\ [][NextRender]_vars

\* ================================================================== claims
Last(q) == q[Len(q)]

BuildInFlight == \E t \in CamThreads : cam_pc[t] \in {"l106", "l115"}

\* C1: once the readiness flag is set, no step of the processing of a further
\* camera-info message changes the Camera Model or the Ground Projector, and
\* the flag stays set.
C1_LatchedOnceReady ==
    [][camera_info_received
         => /\ camera' = camera
            /\ ground_projector' = ground_projector
            /\ camera_info_received']_vars

\* The latch as line 98 implements it: once the flag is set and no call of
\* cb_camera_info that began before is still in its build branch, the model and
\* the projector never change again and no later call enters the build branch.
LatchWithoutOverlap ==
    [][(camera_info_received /\ ~BuildInFlight)
         => /\ camera' = camera
            /\ ground_projector' = ground_projector
            /\ camera_info_received'
            /\ ~BuildInFlight']_vars

\* C2: under every interleaving the Camera Model is constructed at most once:
\* once self.camera holds a model, no step replaces it.
C2_ConstructedAtMostOnce ==
    [][camera = NoCameraModel \/ camera' = camera]_vars

\* C2 failing input: two threads are in the build branch of cb_camera_info at
\* once, with different intrinsics, and one has already assigned self.camera.
C2_Race ==
    \E t, u \in CamThreads :
        /\ cam_pc[t] = "l115" /\ cam_pc[u] = "l106"
        /\ cam_msg[t] # cam_msg[u]

\* rospy calls lineseglist_cb in this step
SegCalled == seg_pc = "idle" /\ seg_count' = seg_count + 1

\* lineseglist_cb, which got past line 135, ends in this step (it returns, or
\* an exception leaves it)
SegEnds == seg_pc # "idle" /\ seg_pc' = "idle"

\* C3: a segment batch handled while the readiness flag is not set publishes
\* no ground-space batch and no debug image, logs the 'waiting for CameraInfo'
\* warning and nothing else, raises no exception, and changes no node state.
C3_ReadinessGating ==
    [][(SegCalled /\ ~camera_info_received)
         => /\ pub_lineseglist' = pub_lineseglist
            /\ pub_debug_img' = pub_debug_img
            /\ log' = log \cup {WarnWaiting}
            /\ seg_pc' = "idle"
            /\ UNCHANGED <<lifecycle, shutdown, homography, camera,
                           ground_projector, camera_info_received,
                           first_processing_done, debug_img_bg, cam_pc>>]_vars

\* C3 witness: two batches were handled before any camera-info message was
\* processed; the warning is logged and nothing was published.
C3_Witness ==
    /\ ~camera_info_received
    /\ seg_count = 2
    /\ seg_pc = "idle"
    /\ WarnWaiting \in log
    /\ ErrBadCallback \notin log
    /\ pub_lineseglist = <<>>
    /\ pub_debug_img = <<>>

\* a well-formed segment: two 2-D points
WellFormed(segment) ==
    /\ Len(segment.pixels_normalized[1]) = 2
    /\ Len(segment.pixels_normalized[2]) = 2

\* endpoint k (0 or 1) of a well-formed segment
Endpoint(segment, k) ==
    [x |-> segment.pixels_normalized[k + 1][1],
     y |-> segment.pixels_normalized[k + 1][2]]

\* rectify, then pixel-to-ray, with the node's Camera Model
RayOf(pixel) == pixel2vector(camera, rectify_pixel(camera, pixel))

\* the ground projection of a pixel with the node's model and projector
GroundOf(pixel) == vector2ground(ground_projector, RayOf(pixel))

AllWellFormedProjectable(msg) ==
    \A i \in 1..Len(msg.segments) :
        /\ WellFormed(msg.segments[i])
        /\ ~Unprojectable(RayOf(Endpoint(msg.segments[i], 0)))
        /\ ~Unprojectable(RayOf(Endpoint(msg.segments[i], 1)))

\* C4: when lineseglist_cb ends for a batch handled in the Ready state whose
\* segments are well-formed and all projectable, the last published batch is
\* that batch's output: same header, same length, and segment i carries the
\* color of input segment i and the ground projections of its endpoints 0 and 1
\* as points[0] and points[1], with z = 0.
C4_ProjectsEveryEndpoint ==
    [][(SegEnds /\ AllWellFormedProjectable(seglist_msg))
         => /\ pub_lineseglist' # <<>>
            /\ LET out == Last(pub_lineseglist')
               IN  /\ out.header = seglist_msg.header
                   /\ Len(out.segments) = Len(seglist_msg.segments)
                   /\ \A i \in 1..Len(seglist_msg.segments) :
                         /\ out.segments[i].color = seglist_msg.segments[i].color
                         /\ out.segments[i].points[1] =
                              fill_point_msg(GroundOf(Endpoint(seglist_msg.segments[i], 0)))
                         /\ out.segments[i].points[2] =
                              fill_point_msg(GroundOf(Endpoint(seglist_msg.segments[i], 1)))]_vars

\* the elements of the segment can be indexed the way lines 142-143 do
Extractable(msg) == \A i \in 1..Len(msg.segments) : CanExtract(msg.segments[i])

\* the segment as lines 142-143 read it has both endpoints projectable
ProjectableSegment(segment) ==
    /\ ~Unprojectable(RayOf(ExtractP0(segment)))
    /\ ~Unprojectable(RayOf(ExtractP1(segment)))

\* the input segments that are projectable, in their order
ProjectableSegments(msg) == SelectSeq(msg.segments, ProjectableSegment)

\* C5: when lineseglist_cb ends for a batch handled in the Ready state that
\* holds unprojectable segments, the batch was published and its output holds
\* exactly the projectable segments, in their order (here for batches whose
\* segments all pass the extraction of lines 142-143).
C5_DropsUnprojectable ==
    [][(SegEnds /\ Extractable(seglist_msg)
          /\ Len(ProjectableSegments(seglist_msg)) < Len(seglist_msg.segments))
         => /\ pub_lineseglist' # <<>>
            /\ LET out == Last(pub_lineseglist')
                   kept == ProjectableSegments(seglist_msg)
               IN  /\ out.header = seglist_msg.header
                   /\ Len(out.segments) = Len(kept)
                   /\ \A i \in 1..Len(kept) :
                         out.segments[i].color = kept[i].color]_vars

\* the published batches computed from the input batch with this header
PublishedFor(pub, header) == { i \in 1..Len(pub) : pub[i].header = header }

\* C6: when lineseglist_cb ends for a batch handled in the Ready state,
\* exactly one ground-space batch with that batch's header has been published.
C6_OneOutputPerBatch ==
    [][SegEnds
         => Cardinality(PublishedFor(pub_lineseglist', seglist_msg.header)) = 1]_vars

\* C7: a step that publishes a debug image publishes one, while the debug
\* publisher has a consumer and the node is ready, for the batch being handled,
\* whose ground-space output is already published with the same header, and
\* for which no debug image was published before.
C7_DebugImageGated ==
    [][(pub_debug_img' # pub_debug_img)
         => /\ num_connections > 0
            /\ camera_info_received
            /\ pub_lineseglist' = pub_lineseglist
            /\ pub_lineseglist # <<>>
            /\ \E img \in {Last(pub_debug_img')} :
                  /\ pub_debug_img' = Append(pub_debug_img, img)
                  /\ img.header = seglist_msg.header
                  /\ img.header = Last(pub_lineseglist).header
                  /\ \A i \in 1..Len(pub_debug_img) :
                        pub_debug_img[i].header # img.header]_vars

\* C7 witness: a debug image was published for the second batch and none for
\* the first, whose output was published too.
C7_Witness ==
    /\ Len(pub_lineseglist) = 2
    /\ Len(pub_debug_img) = 1
    /\ pub_debug_img[1].header = 2
    /\ pub_debug_img[1].image.lines # <<>>

\* C8: the node and a second run fed the same messages on the same schedule,
\* which never has a debug consumer, have published the same sequence of
\* ground-space batches at every moment, whenever consumers connect to and
\* disconnect from the node; every run thus publishes what the run without
\* consumers publishes.
C8_DebugNonInterference ==
    twin.lifecycle # "absent" => twin.pub_lineseglist = pub_lineseglist

\* C8 witness: the node rendered a debug image of its second batch that leaves
\* a segment of the batch out, the second run rendered none, and the node has
\* published two batches.
C8_Witness ==
    /\ twin.lifecycle = "running"
    /\ twin.pub_debug_img = <<>>
    /\ twin.debug_img_bg = None
    /\ debug_img_bg = Background
    /\ Len(pub_lineseglist) = 2
    /\ \E i \in 1..Len(pub_debug_img) :
          /\ pub_debug_img[i].header = pub_lineseglist[2].header
          /\ Len(pub_debug_img[i].image.lines) < Len(pub_lineseglist[2].segments)

\* C9: when load_extrinsics found no robot-specific file and a default file
\* that parses, it returned the default file's homography (the node runs with
\* it), logged the fallback warning and no error, and requested no shutdown.
C9_FallbackToDefault ==
    (robot_file = "absent" /\ default_file = "valid")
      => /\ lifecycle = "running"
         /\ homography = DefaultHomography
         /\ WarnNoRobotFile \in log
         /\ ErrNoFile \notin log
         /\ ErrParse \notin log
         /\ ~shutdown

\* C9 witness: the node runs on the default calibration.
C9_Witness ==
    /\ robot_file = "absent"
    /\ default_file = "valid"
    /\ lifecycle = "running"
    /\ camera_info_received
    /\ camera.H = DefaultHomography

\* load_extrinsics found neither file, or could not parse the file it resolved
FatalCalibration ==
    \/ robot_file = "unparsable"
    \/ robot_file = "absent" /\ default_file \in {"absent", "unparsable"}

\* C10: when neither calibration file exists or the resolved file does not
\* parse, an error is logged, the shutdown is requested and there is no
\* homography; the node is never ready, builds no Camera Model and publishes
\* nothing.
C10_FatalCalibration ==
    FatalCalibration
      => /\ (ErrNoFile \in log \/ ErrParse \in log)
         /\ (robot_file = "absent" /\ default_file = "absent" => ErrNoFile \in log)
         /\ shutdown
         /\ homography = None
         /\ lifecycle = "dead"
         /\ ~camera_info_received
         /\ camera = NoCameraModel
         /\ cam_count = 0 /\ seg_count = 0
         /\ pub_lineseglist = <<>>
         /\ pub_debug_img = <<>>

\* C10 witness: the constructor failed on a default file that does not parse.
C10_Witness ==
    /\ robot_file = "absent"
    /\ default_file = "unparsable"
    /\ lifecycle = "dead"
    /\ ErrParse \in log

\* thread t is inside the with block of store_image_msg or decode_image_msg
InCritical(t) == ai_pc[t] \in {"l62", "l62_exit", "l67", "l65_exit"}

MutuallyExclusive ==
    \A t, u \in StoreThreads \cup {TimerThread} :
        InCritical(t) /\ InCritical(u) => t = u

\* the slot is empty or holds one whole message that was delivered
OneWholeMessage ==
    \/ image_msg = NoImageMsg
    \/ image_msg.seq \in 1..image_count /\ image_msg.data \in Payloads

\* C11: under every interleaving of store_image_msg and decode_image_msg, at
\* most one thread is inside a with block; the slot holds one whole message and
\* changes only when a store assigns it, to that store's message (the last
\* write wins, nothing is queued); while decode_image_msg holds the lock the
\* slot does not change, and the image it decodes is the whole message the
\* slot holds.
C11_LatestFrameMailbox ==
    [][/\ MutuallyExclusive'
       /\ OneWholeMessage'
       /\ (image_msg' # image_msg
             => \E t \in StoreThreads :
                   /\ ai_pc[t] = "l62" /\ ai_pc'[t] = "l62_exit"
                   /\ image_msg' = ai_arg[t])
       /\ (InCritical(TimerThread) => image_msg' = image_msg)
       /\ (image' # image /\ image'.bound
             => /\ ai_pc[TimerThread] = "l67"
                /\ image'.of = image_msg.seq
                /\ image_msg.data = "jpeg")]_vars

\* C11 witness: the timer has decoded frame 2, which superseded frame 1 in the
\* slot, and still holds the lock, while the store of frame 3 waits for it.
C11_Witness ==
    /\ ai_pc[TimerThread] = "l65_exit"
    /\ image.bound /\ image.of = 2
    /\ image_msg.seq = 2
    /\ \E t \in StoreThreads : ai_pc[t] = "l61" /\ ai_arg[t].seq = 3
    /\ \E i \in 1..Len(pub_thresholds) : pub_thresholds[i].low = 1

\* C12: when the decoding of the stored image fails in a tick, the failure is
\* logged and the thresholds keep their values; the tick then ends with the
\* lock released, the thresholds unchanged, nothing published, no exception
\* out of the callback and the timer ready for its next tick.
C12_DecodeFailureContained ==
    [][/\ (ai_pc[TimerThread] = "l67"
             /\ compressed_imgmsg_to_cv2(image_msg) = "ValueError"
             => /\ LogCannotDecode \in ai_log'
                /\ thresholds' = thresholds)
       /\ (ai_pc[TimerThread] = "l70" /\ ~image.bound
             => /\ thresholds' = thresholds
                /\ pub_thresholds' = pub_thresholds
                /\ TimerThread \notin mutex'
                /\ (ErrTimerThread \in ai_log' => ErrTimerThread \in ai_log)
                /\ ai_pc'[TimerThread] = "idle")]_vars

\* the published ground-space batch a debug image was rendered for
BatchOf(img) ==
    pub_lineseglist[CHOOSE j \in 1..Len(pub_lineseglist) :
                       pub_lineseglist[j].header = img.header]

\* q = trunc(a / b) for b > 0: the integer part of the quotient, towards zero
IsTruncOf(q, a, b) ==
    /\ b * Abs(q) <= Abs(a) /\ Abs(a) < b * (Abs(q) + 1)
    /\ (q > 0 => a > 0) /\ (q < 0 => a < 0)

\* pixel px is column trunc(-400 y) + 200 and row trunc(-400 x) + 300 of the
\* ground point (-400 times a length in metres is minus half the length in
\* units of 1/800 m)
MapsTo(point, px) ==
    /\ IsTruncOf(px.col - 200, 0 - point.y, 2)
    /\ IsTruncOf(px.row - 300, 0 - point.x, 2)

\* C13: in every debug image published, of whichever render, the line of a
\* drawn segment runs between the pixels column trunc(-400 y) + 200, row
\* trunc(-400 x) + 300 of its two endpoints, and an endpoint at (0, 0) is at
\* row 300, column 200.
C13_CoordinateMapping ==
    \A k \in 1..Len(pub_debug_img) :
        LET img   == pub_debug_img[k]
            drawn == SelectSeq(BatchOf(img).segments, InScope)
        IN  /\ Len(img.image.lines) = Len(drawn)
            /\ \A i \in 1..Len(drawn) :
                  /\ MapsTo(drawn[i].points[1], img.image.lines[i].pt1)
                  /\ MapsTo(drawn[i].points[2], img.image.lines[i].pt2)
                  /\ (drawn[i].points[1].x = 0 /\ drawn[i].points[1].y = 0
                        => img.image.lines[i].pt1 = [col |-> 200, row |-> 300])

\* C13 witness: the second render drew the segment from the origin to 0.25 m
\* ahead from row 300, column 200 to row 200, column 200, after a first render
\* that drew the segment whose endpoints are half a unit off the origin.
C13_Witness ==
    /\ Len(pub_debug_img) = 2
    /\ BatchOf(pub_debug_img[1]).segments = <<GroundSegment(1, -1, -1, 1, WHITE)>>
    /\ pub_debug_img[1].image.lines[1].pt1 = [col |-> 200, row |-> 300]
    /\ BatchOf(pub_debug_img[2]).segments = <<GroundSegment(0, 0, 200, 0, WHITE)>>
    /\ pub_debug_img[2].image.lines[1].pt1 = [col |-> 200, row |-> 300]
    /\ pub_debug_img[2].image.lines[1].pt2 = [col |-> 200, row |-> 200]

\* the point is further than 0.5 m from the origin
OutsideRadius(point) ==
    \/ Abs(point.x) > 400
    \/ Abs(point.y) > 400
    \/ point.x * point.x + point.y * point.y > 400 * 400

\* the segment has an endpoint outside the visible radius
BeyondRadius(segment) ==
    OutsideRadius(segment.points[1]) \/ OutsideRadius(segment.points[2])

\* the step publishes a debug image
Renders == pub_debug_img' # pub_debug_img

\* C14: a render draws exactly the segments of the batch that have no endpoint
\* outside the visible radius of 0.5 m from the origin, so that the image of a
\* batch made only of segments beyond the radius is the cached background with
\* nothing drawn; and the batch published for the render still holds every
\* segment.
C14_VisibleRadiusFilter ==
    [][Renders
         => LET img == Last(pub_debug_img').image
            IN  /\ Len(img.lines) =
                     Len(seglist_out.segments)
                       - Len(SelectSeq(seglist_out.segments, BeyondRadius))
                /\ ((\A i \in 1..Len(seglist_out.segments) :
                        BeyondRadius(seglist_out.segments[i]))
                      => img.lines = <<>> /\ img.background = debug_img_bg')
                /\ pub_lineseglist' = pub_lineseglist
                /\ Last(pub_lineseglist) = seglist_out]_vars

\* The filter as lines 310-313 implement it, a bound on each coordinate: a
\* render draws exactly the segments with no coordinate beyond 0.5 m in
\* absolute value, and takes nothing from the published batch.
SkipsBeyondScope ==
    [][Renders
         => LET img == Last(pub_debug_img').image
                beyond(segment) ==
                    \E point \in {segment.points[1], segment.points[2]} :
                        Abs(point.x) > 400 \/ Abs(point.y) > 400
            IN  /\ Len(img.lines) =
                     Len(seglist_out.segments)
                       - Len(SelectSeq(seglist_out.segments, beyond))
                /\ ((\A i \in 1..Len(seglist_out.segments) :
                        beyond(seglist_out.segments[i]))
                      => img.lines = <<>> /\ img.background = debug_img_bg')
                /\ pub_lineseglist' = pub_lineseglist
                /\ Last(pub_lineseglist) = seglist_out]_vars

\* C15: the cached background changes only in the first render, from None to
\* the background, and every render draws on a copy of the pristine
\* background lines of segments of its own batch only.
C15_CachedBackground ==
    [][/\ (debug_img_bg' # debug_img_bg
             => Renders /\ debug_img_bg = None /\ debug_img_bg' = Background)
       /\ (Renders
             => LET img == Last(pub_debug_img').image
                IN  /\ debug_img_bg' = Background
                    /\ img.background = Background
                    /\ Len(img.lines) <= Len(seglist_out.segments)
                    /\ \A i \in 1..Len(img.lines) :
                          \E j \in 1..Len(seglist_out.segments) :
                              /\ MapsTo(seglist_out.segments[j].points[1], img.lines[i].pt1)
                              /\ MapsTo(seglist_out.segments[j].points[2], img.lines[i].pt2)
                              /\ img.lines[i].color
                                   = color_map(seglist_out.segments[j].color))]_vars

\* C15 witness: after a first render that drew two segments, the second
\* render, of a batch with nothing in scope, is the pristine background.
C15_Witness ==
    /\ Len(pub_debug_img) = 2
    /\ Len(pub_debug_img[1].image.lines) = 2
    /\ BatchOf(pub_debug_img[2]).segments # <<>>
    /\ pub_debug_img[2].image.lines = <<>>
    /\ pub_debug_img[2].image.background = Background
    /\ debug_img_bg = Background

\* C19: in every debug image, both ends of every line drawn are inside the
\* 400 x 400 raster.
C19_DrawnInsideRaster ==
    \A k \in 1..Len(pub_debug_img) :
        \A i \in 1..Len(pub_debug_img[k].image.lines) :
            \A px \in {pub_debug_img[k].image.lines[i].pt1,
                       pub_debug_img[k].image.lines[i].pt2} :
                /\ 0 <= px.col /\ px.col < 400
                /\ 0 <= px.row /\ px.row < 400

\* a step of lineseglist_cb
SegStep == seg_pc' # seg_pc \/ seg_count' # seg_count

\* C16: no step of lineseglist_cb changes the homography, the Camera Model,
\* the Ground Projector or the readiness flag, nor the state of a running
\* cb_camera_info; of the node's fields it changes first_processing_done and
\* debug_img_bg only, so a batch finds the calibration state the batches
\* before it found.
C16_CalibrationUntouched ==
    [][SegStep
         => UNCHANGED <<homography, camera, ground_projector,
                        camera_info_received, cam_pc, cam_msg, lifecycle,
                        shutdown>>]_vars

\* C16 witness: two batches were processed and published, the second with a
\* debug image; the flag and the background cache were set on the way.
C16_Witness ==
    /\ seg_pc = "idle"
    /\ Len(pub_lineseglist) = 2
    /\ pub_lineseglist[1].segments # <<>>
    /\ pub_lineseglist[2].segments # <<>>
    /\ first_processing_done
    /\ debug_img_bg = Background
    /\ camera_info_received
    /\ camera = CameraModel(1, RobotHomography)

\* C17: the extraction step, for a well-formed segment of two 2-D points,
\* goes through and reads endpoint A from the first point (x then y) and
\* endpoint B from the second point (x then y).
C17_EndpointExtraction ==
    [][(seg_pc = "l145" /\ seg_pc' # "l145"
          /\ WellFormed(seglist_msg.segments[seg_i]))
         => /\ seg_pc' = "l146"
            /\ pt0' = rectify_pixel(camera, Endpoint(seglist_msg.segments[seg_i], 0))
            /\ pt1' = Endpoint(seglist_msg.segments[seg_i], 1)]_vars

\* lineseglist_cb is past the readiness check and in the loop of lines 138-159
InLoop == seg_pc \in {"l145", "l146", "l148", "l149", "l151", "l152"}

\* C18: whenever the readiness flag is set, and whenever lineseglist_cb is
\* past the readiness check, the Camera Model and the Ground Projector exist,
\* and the projector is built on a Camera Model.
C18_ReadyImpliesModels ==
    (camera_info_received \/ InLoop)
      => /\ camera # NoCameraModel
         /\ ground_projector # NoGroundProjector
         /\ ground_projector.camera # NoCameraModel

\* C18 witness: a batch is being projected while a second cb_camera_info,
\* which passed line 98 before the flag was set, is rebuilding the model.
C18_Witness ==
    /\ seg_pc = "l151"
    /\ camera_info_received
    /\ \E t \in CamThreads : cam_pc[t] = "l115"

\* the timer calls calculate_new_parameters in this step
TickCalled == tick_count' = tick_count + 1

\* C20: a tick that finds the slot empty logs that it waits and returns, with
\* the estimator untouched and nothing published; and every step that
\* publishes thresholds publishes, once, the thresholds an update computed
\* from an image that was delivered and stored.
C20_NoThresholdsBeforeFirstImage ==
    [][/\ (TickCalled /\ ai_lifecycle = "running" /\ image_msg = NoImageMsg
             => /\ thresholds' = thresholds
                /\ pub_thresholds' = pub_thresholds
                /\ ai_log' = ai_log \cup {LogWaiting}
                /\ ai_pc'[TimerThread] = "idle"
                /\ UNCHANGED <<image_msg, mutex, image>>)
       /\ (pub_thresholds' # pub_thresholds
             => /\ image_msg # NoImageMsg
                /\ thresholds.from \in 1..image_count
                /\ pub_thresholds' =
                     Append(pub_thresholds, AntiInstagramThresholds(thresholds)))]_vars

\* C20 witness: a tick found the slot empty, and a later tick published the
\* thresholds of the first image.
C20_Witness ==
    /\ LogWaiting \in ai_log
    /\ Len(pub_thresholds) = 1
    /\ pub_thresholds[1].low = 1
    /\ tick_count = 2

=============================================================================
